---- MODULE Spec2Model ----
(***************************************************************************)
(* onix: a command-line client for a project/todo-list HTTP+JSON service.  *)
(* One behaviour of this module is one invocation of the program           *)
(* (src/main.rs): the parsed subcommand, the HTTP requests it issues, the  *)
(* responses the server gives, what is written to stdout and how the       *)
(* process ends.                                                           *)
(***************************************************************************)
EXTENDS Integers, Sequences, FiniteSets, TLC

VARIABLES
    cmd,        \* the parsed SubCommand: [name, a1, a2]
    pc,         \* position of main: "main", an operation awaiting I/O, "exit"
    requests,   \* the HTTP requests issued so far, in the order the server sees them
    inflight,   \* number of requests issued whose response has not been received
    responses,  \* the server's responses, in the order they were received
    calls,      \* the Api Client operations that returned: [op, resp, ret]
    project,    \* get_full_project: Option<Project> bound at line 96
    lists,      \* get_full_project: the Vec<List> built by the loop
    sent,       \* get_full_project: number of list fetches started by the loop
    full,       \* get_full_project's return value, Option<FullProject>
    stdout,     \* the chunks written to standard output, in order
    exitStatus, \* -1 while running, 0 after Ok(()), 101 after a panic
    panicMsg    \* the message of the panic that ended the process, "" if none

vars == <<cmd, pc, requests, inflight, responses, calls, project, lists, sent,
          full, stdout, exitStatus, panicMsg>>

----------------------------------------------------------------------------
(* Bounds of the model *)

\* longest lists id sequence a Project response carries
MaxLists == 2

----------------------------------------------------------------------------
(* Option<T>: None is the empty sequence, Some(v) the one-element sequence *)

None == <<>>
Some(v) == <<v>>
IsSome(o) == Len(o) = 1

\* exit status of a Rust process whose main thread panicked
PanicExit == 101

\* in-process marker of a call that unwound with a panic instead of returning
Unwound(msg) == <<"panic", msg>>
IsUnwound(r) == Len(r) = 2

OptionUnwrapMsg == "called Option::unwrap() on a None value"
ResultUnwrapMsg == "called Result::unwrap() on an Err value"

----------------------------------------------------------------------------
(* The command line (clap): the seven subcommands and the arguments tried *)

DoneArgs == {"true", "TRUE", "1", "", "maybe", "false"}

Commands ==
    {[name |-> "get-all-projects", a1 |-> "", a2 |-> ""],
     [name |-> "get-project", a1 |-> "p1", a2 |-> ""],
     [name |-> "new-list", a1 |-> "p1", a2 |-> "Groceries"],
     [name |-> "new-list-item", a1 |-> "l1", a2 |-> "milk"],
     [name |-> "delete-list", a1 |-> "l9", a2 |-> ""],
     [name |-> "delete-list-item", a1 |-> "i1", a2 |-> ""]}
    \cup {[name |-> "update-item", a1 |-> "i1", a2 |-> d] : d \in DoneArgs}

----------------------------------------------------------------------------
(* What the server may answer.  A response is a transport error (ok =      *)
(* FALSE) or a status line with a body; a body is unreadable (the read     *)
(* fails), or readable text that is no JSON of the expected shape, or the  *)
(* JSON of a Project, a List or an array of Projects.                      *)

ListIds == {"l1", "l2"}

SeqUpTo(S, n) == UNION {[1..k -> S] : k \in 0..n}

WireProjectBase ==
    {[id |-> "p1", name |-> n, color |-> "#fff", createdAt |-> "t1", updatedAt |-> "t2"] :
        n \in {"N", "M"}}

\* a Project on the wire: with a lists array of Id objects, or without the field
WireProjects ==
    WireProjectBase
    \cup {[id |-> b.id, name |-> b.name, color |-> b.color, createdAt |-> b.createdAt,
           updatedAt |-> b.updatedAt, lists |-> [i \in DOMAIN s |-> [id |-> s[i]]]] :
            b \in WireProjectBase, s \in SeqUpTo(ListIds, MaxLists)}

WireItem(lid) == [id |-> "i1", name |-> "x", done |-> FALSE, listId |-> lid]

WireLists ==
    {[id |-> l, name |-> "A", projectId |-> "p1", items |-> <<>>] : l \in ListIds}
    \cup {[id |-> l, name |-> "B", projectId |-> "p1", items |-> <<WireItem(l)>>] : l \in ListIds}

Statuses == {200, 204, 500}

\* a body is the pair <<kind, content>>
Unreadable == <<"unreadable", "">>
Text(s) == <<"text", s>>
Json(ty, v) == <<ty, v>>
BodyKind(b) == b[1]
BodyContent(b) == b[2]

TransportError == [ok |-> FALSE, status |-> 0, body |-> Unreadable]
Answers(bodies) == {[ok |-> TRUE, status |-> s, body |-> b] : s \in Statuses, b \in bodies}

ProjectAnswers ==
    {TransportError} \cup Answers({Unreadable, Text("oops")} \cup {Json("Project", w) : w \in WireProjects})
ListAnswers ==
    {TransportError} \cup Answers({Unreadable, Text("oops")} \cup {Json("List", w) : w \in WireLists})
AllProjectsAnswers ==
    {TransportError}
    \cup Answers({Unreadable, Text("oops"), Json("Projects", <<>>)}
                 \cup {Json("Projects", <<w>>) : w \in WireProjectBase})
TextAnswers == {TransportError} \cup Answers({Unreadable, Text("l7"), Text("")})

----------------------------------------------------------------------------
(* Model (serde): decoding a wire object into the struct, field by field   *)
(* under the serde renames, and encoding it back.                          *)

DecodeId(w) == [id |-> w.id]

\* Option<Vec<Id>>: a missing lists field deserializes to None
DecodeProject(w) ==
    [id |-> w.id, name |-> w.name, color |-> w.color,
     created_at |-> w.createdAt, updated_at |-> w.updatedAt,
     lists |-> IF "lists" \in DOMAIN w
                 THEN Some([i \in DOMAIN w.lists |-> DecodeId(w.lists[i])])
                 ELSE None]

DecodeListItem(w) == [id |-> w.id, name |-> w.name, done |-> w.done, list_id |-> w.listId]

DecodeList(w) ==
    [id |-> w.id, name |-> w.name, project_id |-> w.projectId,
     items |-> [i \in DOMAIN w.items |-> DecodeListItem(w.items[i])]]

JsonNull == "null"

EncodeProject(p) ==
    [id |-> p.id, name |-> p.name, color |-> p.color,
     createdAt |-> p.created_at, updatedAt |-> p.updated_at,
     lists |-> IF IsSome(p.lists) THEN p.lists[1] ELSE JsonNull]

EncodeListItem(x) == [id |-> x.id, name |-> x.name, done |-> x.done, listId |-> x.list_id]

EncodeList(l) ==
    [id |-> l.id, name |-> l.name, projectId |-> l.project_id,
     items |-> [i \in DOMAIN l.items |-> EncodeListItem(l.items[i])]]

EncodeFullProject(f) ==
    [id |-> f.id, name |-> f.name, color |-> f.color,
     createdAt |-> f.created_at, updatedAt |-> f.updated_at,
     lists |-> [i \in DOMAIN f.lists |-> EncodeList(f.lists[i])]]

\* Response::json::<T>().await.ok(): None when the body cannot be read or is
\* not the JSON of a T
json_Projects(body) ==
    IF BodyKind(body) = "Projects"
      THEN Some([i \in DOMAIN BodyContent(body) |-> DecodeProject(BodyContent(body)[i])])
      ELSE None
json_Project(body) == IF BodyKind(body) = "Project" THEN Some(DecodeProject(BodyContent(body))) ELSE None
json_List(body) == IF BodyKind(body) = "List" THEN Some(DecodeList(BodyContent(body))) ELSE None

\* Response::text().await: Err (None here) only when the body cannot be read
text(body) == IF BodyKind(body) = "unreadable" THEN None ELSE Some(BodyContent(body))

\* StatusCode::is_success
is_success(status) == status >= 200 /\ status <= 299

----------------------------------------------------------------------------
(* Api Client: the request each operation builds, and the value it returns *)
(* for the response it receives.                                           *)

Base == "http://localhost:3000"

HttpRequest(method, url, body) == [method |-> method, url |-> url, body |-> body]

get_all_projects_request == HttpRequest("GET", Base \o "/api/project/all", None)

get_all_projects(resp) == IF ~resp.ok THEN None ELSE json_Projects(resp.body)

get_project_request(id) == HttpRequest("GET", Base \o "/api/project?id=" \o id, None)

get_project(resp) == IF ~resp.ok THEN None ELSE json_Project(resp.body)

get_project_list_request(list_id) ==
    HttpRequest("GET", Base \o "/api/project/list?id=" \o list_id, None)

get_project_list(resp) == IF ~resp.ok THEN None ELSE json_List(resp.body)

\* faulty variant: the update is sent with POST
update_item_request_Post(item_id, done) ==
    HttpRequest("POST", Base \o "/api/project/list/item",
                Some([id |-> item_id, data |-> [done |-> done]]))

update_item_request(item_id, done) ==
    HttpRequest("PATCH", Base \o "/api/project/list/item",
                Some([id |-> item_id, data |-> [done |-> done]]))

update_item(resp) == IF resp.ok THEN is_success(resp.status) ELSE FALSE

new_list_request(project_id, name) ==
    HttpRequest("POST", Base \o "/api/project/list",
                Some([name |-> name, projectId |-> project_id]))

\* res.text().await.unwrap() panics inside the operation when the read fails
new_list(resp) ==
    IF resp.ok
      THEN IF is_success(resp.status)
             THEN IF IsSome(text(resp.body))
                    THEN Some(text(resp.body)[1])
                    ELSE Unwound(ResultUnwrapMsg)
             ELSE None
      ELSE None

new_list_item_request(list_id, name) ==
    HttpRequest("POST", Base \o "/api/project/list/item",
                Some([name |-> name, listId |-> list_id]))

new_list_item(resp) ==
    IF resp.ok
      THEN IF is_success(resp.status)
             THEN IF IsSome(text(resp.body))
                    THEN Some(text(resp.body)[1])
                    ELSE Unwound(ResultUnwrapMsg)
             ELSE None
      ELSE None

delete_list_request(list_id) ==
    HttpRequest("DELETE", Base \o "/api/project/list?id=" \o list_id, None)

delete_list(resp) == IF resp.ok THEN is_success(resp.status) ELSE FALSE

delete_list_item_request(item_id) ==
    HttpRequest("DELETE", Base \o "/api/project/list/item?id=" \o item_id, None)

delete_list_item(resp) == IF resp.ok THEN is_success(resp.status) ELSE FALSE

----------------------------------------------------------------------------
(* get_full_project: the steps between its suspension points *)

\* faulty variant: a missing lists field is taken for an empty sequence
ProjectLists_OrEmpty(p) == IF p.lists = None THEN Some(<<>>) ELSE p.lists

\* project.lists.as_ref()? : the id sequence to iterate, None ends the call
ProjectLists(p) == p.lists

\* faulty variant: the fetches are started without awaiting the previous one
Awaited_Never(n) == TRUE

\* the loop reaches the next get_project_list only after the previous
\* .await has resolved
Awaited(n) == n = 0

\* faulty variant: the fetched list is inserted at the front
ListStep_PushFront(acc, ret) ==
    IF ret = None
      THEN [abort |-> TRUE, lists |-> acc]
      ELSE [abort |-> FALSE, lists |-> <<ret[1]>> \o acc]

\* faulty variant: a failed fetch is skipped and the loop goes on
ListStep_SkipFailed(acc, ret) ==
    IF ret = None
      THEN [abort |-> FALSE, lists |-> acc]
      ELSE [abort |-> FALSE, lists |-> Append(acc, ret[1])]

\* one pass of the loop body on the fetched Option<List>: ? returns None from
\* get_full_project, otherwise the list is pushed at the back
ListStep(acc, ret) ==
    IF ret = None
      THEN [abort |-> TRUE, lists |-> acc]
      ELSE [abort |-> FALSE, lists |-> Append(acc, ret[1])]

MakeFullProject(p, ls) ==
    [id |-> p.id, name |-> p.name, color |-> p.color,
     created_at |-> p.created_at, updated_at |-> p.updated_at,
     lists |-> ls]

----------------------------------------------------------------------------
(* main: how each arm of the match ends the process, as                    *)
(* [out: chunks written to stdout, status: exit status, msg: panic message] *)

Ended(out, status, msg) == [out |-> out, status |-> status, msg |-> msg]

main_GetAllProjects(projects) ==
    IF projects = None
      THEN Ended(<<>>, PanicExit, OptionUnwrapMsg)
      ELSE Ended(<<Json("Projects", [i \in DOMAIN projects[1] |-> EncodeProject(projects[1][i])])>>,
                 0, "")

\* faulty variant: the Option is printed without unwrap, None as null
main_GetProject_PrintsOption(fp) ==
    IF fp = None
      THEN Ended(<<Json("null", JsonNull)>>, 0, "")
      ELSE Ended(<<Json("FullProject", EncodeFullProject(fp[1]))>>, 0, "")

main_GetProject(fp) ==
    IF fp = None
      THEN Ended(<<>>, PanicExit, OptionUnwrapMsg)
      ELSE Ended(<<Json("FullProject", EncodeFullProject(fp[1]))>>, 0, "")

\* faulty variant: the comparison ignores case
ParseDone_IgnoreCase(done) == done \in {"true", "TRUE", "True"}

\* done == "true"
ParseDone(done) == done = "true"

main_UpdateItem(ok) ==
    IF ~ok THEN Ended(<<>>, PanicExit, "Failed to update item") ELSE Ended(<<>>, 0, "")

main_NewList(res) ==
    IF IsUnwound(res) THEN Ended(<<>>, PanicExit, res[2])
    ELSE IF IsSome(res) THEN Ended(<<res[1] \o "\n">>, 0, "")
    ELSE Ended(<<>>, PanicExit, "Failed to create list")

main_NewListItem(res) ==
    IF IsUnwound(res) THEN Ended(<<>>, PanicExit, res[2])
    ELSE IF IsSome(res) THEN Ended(<<res[1] \o "\n">>, 0, "")
    ELSE Ended(<<>>, PanicExit, "Failed to create list item")

main_DeleteList(ok) ==
    IF ~ok THEN Ended(<<>>, PanicExit, "Failed to delete list") ELSE Ended(<<>>, 0, "")

main_DeleteListItem(ok) ==
    IF ~ok THEN Ended(<<>>, PanicExit, "Failed to delete item") ELSE Ended(<<>>, 0, "")

----------------------------------------------------------------------------
(* The state machine *)

Init ==
    /\ cmd \in Commands
    /\ pc = "main"
    /\ requests = <<>>
    /\ inflight = 0
    /\ responses = <<>>
    /\ calls = <<>>
    /\ project = None
    /\ lists = <<>>
    /\ sent = 0
    /\ full = None
    /\ stdout = <<>>
    /\ exitStatus = -1
    /\ panicMsg = ""

\* an operation sends its request and suspends on the response
Issue(op, req) ==
    /\ pc' = op
    /\ requests' = Append(requests, req)
    /\ inflight' = inflight + 1

\* the response arrives and the operation returns ret
Returned(op, resp, ret) ==
    /\ inflight' = inflight - 1
    /\ responses' = Append(responses, resp)
    /\ calls' = Append(calls, [op |-> op, resp |-> resp, ret |-> ret])

\* the process ends as e says
Exit(e) ==
    /\ pc' = "exit"
    /\ stdout' = stdout \o e.out
    /\ exitStatus' = e.status
    /\ panicMsg' = e.msg

GetAllProjectsCall ==
    /\ pc = "main" /\ cmd.name = "get-all-projects"
    /\ Issue("get_all_projects", get_all_projects_request)
    /\ UNCHANGED <<cmd, responses, calls, project, lists, sent, full, stdout, exitStatus, panicMsg>>

GetAllProjectsDone ==
    /\ pc = "get_all_projects"
    /\ \E resp \in AllProjectsAnswers :
        LET ret == get_all_projects(resp) IN
        /\ Returned("get_all_projects", resp, ret)
        /\ Exit(main_GetAllProjects(ret))
    /\ UNCHANGED <<cmd, requests, project, lists, sent, full>>

GetProjectCall ==
    /\ pc = "main" /\ cmd.name = "get-project"
    /\ Issue("get_project", get_project_request(cmd.a1))
    /\ UNCHANGED <<cmd, responses, calls, project, lists, sent, full, stdout, exitStatus, panicMsg>>

\* lines 96-98: bind the project, then enter the loop or return None
GetProjectDone ==
    /\ pc = "get_project"
    /\ \E resp \in ProjectAnswers :
        LET ret == get_project(resp) IN
        /\ Returned("get_project", resp, ret)
        /\ project' = ret
        /\ IF ret = None \/ ProjectLists(ret[1]) = None
             THEN /\ full' = None
                  /\ Exit(main_GetProject(None))
             ELSE /\ pc' = "lists_loop"
                  /\ UNCHANGED <<full, stdout, exitStatus, panicMsg>>
    /\ UNCHANGED <<cmd, requests, lists, sent>>

\* line 99: the next id of the sequence is requested
GetListCall ==
    /\ pc = "lists_loop"
    /\ sent < Len(ProjectLists(project[1])[1])
    /\ Awaited(inflight)
    /\ Issue("lists_loop", get_project_list_request(ProjectLists(project[1])[1][sent + 1].id))
    /\ sent' = sent + 1
    /\ UNCHANGED <<cmd, responses, calls, project, lists, full, stdout, exitStatus, panicMsg>>

\* lines 99-100: the list arrives and is pushed, or the call returns None
GetListDone ==
    /\ pc = "lists_loop"
    /\ inflight > 0
    /\ \E resp \in ListAnswers :
        LET ret == get_project_list(resp)
            step == ListStep(lists, ret) IN
        /\ Returned("get_project_list", resp, ret)
        /\ lists' = step.lists
        /\ IF step.abort
             THEN /\ full' = None
                  /\ Exit(main_GetProject(None))
             ELSE UNCHANGED <<pc, full, stdout, exitStatus, panicMsg>>
    /\ UNCHANGED <<cmd, requests, project, sent>>

\* lines 103-111 and 209-210: the iterator is exhausted
GetFullProjectReturn ==
    /\ pc = "lists_loop"
    /\ sent = Len(ProjectLists(project[1])[1])
    /\ inflight = 0
    /\ full' = Some(MakeFullProject(project[1], lists))
    /\ Exit(main_GetProject(full'))
    /\ UNCHANGED <<cmd, requests, inflight, responses, calls, project, lists, sent>>

UpdateItemCall ==
    /\ pc = "main" /\ cmd.name = "update-item"
    /\ Issue("update_item", update_item_request(cmd.a1, ParseDone(cmd.a2)))
    /\ UNCHANGED <<cmd, responses, calls, project, lists, sent, full, stdout, exitStatus, panicMsg>>

UpdateItemDone ==
    /\ pc = "update_item"
    /\ \E resp \in TextAnswers :
        LET ret == update_item(resp) IN
        /\ Returned("update_item", resp, ret)
        /\ Exit(main_UpdateItem(ret))
    /\ UNCHANGED <<cmd, requests, project, lists, sent, full>>

NewListCall ==
    /\ pc = "main" /\ cmd.name = "new-list"
    /\ Issue("new_list", new_list_request(cmd.a1, cmd.a2))
    /\ UNCHANGED <<cmd, responses, calls, project, lists, sent, full, stdout, exitStatus, panicMsg>>

NewListDone ==
    /\ pc = "new_list"
    /\ \E resp \in TextAnswers :
        LET ret == new_list(resp) IN
        /\ Returned("new_list", resp, ret)
        /\ Exit(main_NewList(ret))
    /\ UNCHANGED <<cmd, requests, project, lists, sent, full>>

NewListItemCall ==
    /\ pc = "main" /\ cmd.name = "new-list-item"
    /\ Issue("new_list_item", new_list_item_request(cmd.a1, cmd.a2))
    /\ UNCHANGED <<cmd, responses, calls, project, lists, sent, full, stdout, exitStatus, panicMsg>>

NewListItemDone ==
    /\ pc = "new_list_item"
    /\ \E resp \in TextAnswers :
        LET ret == new_list_item(resp) IN
        /\ Returned("new_list_item", resp, ret)
        /\ Exit(main_NewListItem(ret))
    /\ UNCHANGED <<cmd, requests, project, lists, sent, full>>

DeleteListCall ==
    /\ pc = "main" /\ cmd.name = "delete-list"
    /\ Issue("delete_list", delete_list_request(cmd.a1))
    /\ UNCHANGED <<cmd, responses, calls, project, lists, sent, full, stdout, exitStatus, panicMsg>>

DeleteListDone ==
    /\ pc = "delete_list"
    /\ \E resp \in TextAnswers :
        LET ret == delete_list(resp) IN
        /\ Returned("delete_list", resp, ret)
        /\ Exit(main_DeleteList(ret))
    /\ UNCHANGED <<cmd, requests, project, lists, sent, full>>

DeleteListItemCall ==
    /\ pc = "main" /\ cmd.name = "delete-list-item"
    /\ Issue("delete_list_item", delete_list_item_request(cmd.a1))
    /\ UNCHANGED <<cmd, responses, calls, project, lists, sent, full, stdout, exitStatus, panicMsg>>

DeleteListItemDone ==
    /\ pc = "delete_list_item"
    /\ \E resp \in TextAnswers :
        LET ret == delete_list_item(resp) IN
        /\ Returned("delete_list_item", resp, ret)
        /\ Exit(main_DeleteListItem(ret))
    /\ UNCHANGED <<cmd, requests, project, lists, sent, full>>

Next ==
    \/ GetAllProjectsCall \/ GetAllProjectsDone
    \/ GetProjectCall \/ GetProjectDone
    \/ GetListCall \/ GetListDone \/ GetFullProjectReturn
    \/ UpdateItemCall \/ UpdateItemDone
    \/ NewListCall \/ NewListDone
    \/ NewListItemCall \/ NewListItemDone
    \/ DeleteListCall \/ DeleteListDone
    \/ DeleteListItemCall \/ DeleteListItemDone

Spec == Init /\ [][Next]_vars

----------------------------------------------------------------------------
(* Vocabulary of the properties *)

Exited == pc = "exit"

\* the response was received with a 2xx status and a body of the given kind
Success2xx(resp, kind) == resp.ok /\ is_success(resp.status) /\ BodyKind(resp.body) = kind

\* the Project object the server sent in answer to the first request
FetchedWire == BodyContent(responses[1].body)

\* the struct l carries exactly what the wire object w carries
SameItem(x, w) == x.id = w.id /\ x.name = w.name /\ x.done = w.done /\ x.list_id = w.listId
SameList(l, w) ==
    /\ l.id = w.id /\ l.name = w.name /\ l.project_id = w.projectId
    /\ Len(l.items) = Len(w.items)
    /\ \A i \in DOMAIN w.items : SameItem(l.items[i], w.items[i])

\* get-project decoded a Project whose lists field is present
ProjectWithLists ==
    /\ cmd.name = "get-project"
    /\ Len(calls) >= 1
    /\ IsSome(calls[1].ret)
    /\ IsSome(calls[1].ret[1].lists)

\* the id sequence of that Project
FetchedIds == calls[1].ret[1].lists[1]

GetUrl(path, id) == Base \o path \o "?id=" \o id

----------------------------------------------------------------------------
\* C1: when the Project response carries lists [l1..lN] and every one of the
\* N list fetches is answered successfully, get_full_project returns a
\* FullProject with the Project's id, name, color, createdAt and updatedAt and
\* with exactly N lists, the i-th being the List answered to the i-th fetch.
C1_FullProjectJoinsInOrder ==
    ( /\ cmd.name = "get-project" /\ Exited
      /\ Len(responses) >= 1
      /\ Success2xx(responses[1], "Project")
      /\ "lists" \in DOMAIN FetchedWire
      /\ Len(responses) = 1 + Len(FetchedWire.lists)
      /\ \A i \in 2..Len(responses) : Success2xx(responses[i], "List") )
    => /\ IsSome(full)
       /\ full[1].id = FetchedWire.id
       /\ full[1].name = FetchedWire.name
       /\ full[1].color = FetchedWire.color
       /\ full[1].created_at = FetchedWire.createdAt
       /\ full[1].updated_at = FetchedWire.updatedAt
       /\ Len(full[1].lists) = Len(FetchedWire.lists)
       /\ \A i \in 1..Len(FetchedWire.lists) :
            SameList(full[1].lists[i], BodyContent(responses[i + 1].body))

\* a project of two ids answered by two different lists has been joined
C1_Witness ==
    /\ cmd.name = "get-project" /\ Exited
    /\ Len(responses) = 3
    /\ \A i \in 1..3 : responses[i].ok /\ is_success(responses[i].status)
    /\ IsSome(full)
    /\ Len(full[1].lists) = 2
    /\ full[1].lists[1] # full[1].lists[2]
    /\ FetchedWire.lists[1] = FetchedWire.lists[2]

----------------------------------------------------------------------------
\* C2: every Api Client operation returns its negative outcome (None or
\* false) when its exchange ends in a transport error, a non-2xx status, or,
\* for the operations that read the body, a body that cannot be read or
\* decoded; the failure never escapes as a panic; and get_full_project
\* returns None when any of its exchanges ends so.
BoolOps == {"update_item", "delete_list", "delete_list_item"}

BodyKindOf(op) ==
    CASE op = "get_all_projects" -> "Projects"
      [] op = "get_project" -> "Project"
      [] op = "get_project_list" -> "List"
      [] OTHER -> "text"

ExchangeFailed(c) ==
    \/ ~c.resp.ok
    \/ ~is_success(c.resp.status)
    \/ c.op \notin BoolOps /\ BodyKind(c.resp.body) # BodyKindOf(c.op)

NegativeOutcome(c) == IF c.op \in BoolOps THEN c.ret = FALSE ELSE c.ret = None

C2_FailuresCollapse ==
    /\ \A i \in DOMAIN calls : ExchangeFailed(calls[i]) => NegativeOutcome(calls[i])
    /\ (cmd.name = "get-project" /\ Exited /\ \E i \in DOMAIN calls : ExchangeFailed(calls[i]))
         => full = None

----------------------------------------------------------------------------
----------------------------------------------------------------------------
\* The request each single-request subcommand is documented to issue
DocumentedRequest(c) ==
    CASE c.name = "get-all-projects" -> [method |-> "GET", url |-> Base \o "/api/project/all"]
      [] c.name = "update-item" -> [method |-> "PATCH", url |-> Base \o "/api/project/list/item"]
      [] c.name = "new-list" -> [method |-> "POST", url |-> Base \o "/api/project/list"]
      [] c.name = "new-list-item" -> [method |-> "POST", url |-> Base \o "/api/project/list/item"]
      [] c.name = "delete-list" -> [method |-> "DELETE", url |-> GetUrl("/api/project/list", c.a1)]
      [] c.name = "delete-list-item" ->
            [method |-> "DELETE", url |-> GetUrl("/api/project/list/item", c.a1)]

SingleRequestCommand == cmd.name # "get-project"

OneDocumentedRequest ==
    /\ Len(requests) = 1
    /\ requests[1].method = DocumentedRequest(cmd).method
    /\ requests[1].url = DocumentedRequest(cmd).url

\* get-project: one GET /api/project, then GETs of /api/project/list
ProjectThenLists ==
    /\ Len(requests) >= 1
    /\ requests[1].method = "GET"
    /\ requests[1].url = GetUrl("/api/project", cmd.a1)
    /\ \A j \in 2..Len(requests) :
        /\ requests[j].method = "GET"
        /\ requests[j].url = GetUrl("/api/project/list", FetchedIds[j - 1].id)

\* the position of the first list fetch that returned None, 0 if none did
FirstFailedList ==
    IF \E k \in 2..Len(calls) : calls[k].ret = None
      THEN (CHOOSE k \in 2..Len(calls) :
                calls[k].ret = None /\ \A j \in 2..(k - 1) : calls[j].ret # None) - 1
      ELSE 0

----------------------------------------------------------------------------
\* C5: for update-item, new-list, new-list-item, delete-list and
\* delete-list-item, when the exchange fails (transport error, non-2xx
\* status, or a response body the command reads and cannot read) the process
\* ends with a non-zero status, an empty stdout and the command's fixed
\* message; when it succeeds with 2xx the process exits 0.
FixedMessage(c) ==
    CASE c.name = "update-item" -> "Failed to update item"
      [] c.name = "new-list" -> "Failed to create list"
      [] c.name = "new-list-item" -> "Failed to create list item"
      [] c.name = "delete-list" -> "Failed to delete list"
      [] c.name = "delete-list-item" -> "Failed to delete item"

MutationCommand ==
    cmd.name \in {"update-item", "new-list", "new-list-item", "delete-list", "delete-list-item"}

C5_FixedMessageOnFailure ==
    (MutationCommand /\ Exited) =>
        IF ExchangeFailed(calls[1])
          THEN exitStatus # 0 /\ stdout = <<>> /\ panicMsg = FixedMessage(cmd)
          ELSE exitStatus = 0

----------------------------------------------------------------------------
\* C6: the PATCH body of update-item carries done = true exactly when the
\* argument is the string "true"; the request is sent whatever the argument
\* is, and the exit status is 0 exactly when the response has a 2xx status.
C6_DoneIsStringEquality ==
    (cmd.name = "update-item" /\ pc # "main") =>
        /\ Len(requests) = 1
        /\ requests[1].method = "PATCH"
        /\ requests[1].body[1].id = cmd.a1
        /\ requests[1].body[1].data.done = (cmd.a2 = "true")
        /\ Exited =>
            (exitStatus = 0 <=> (responses[1].ok /\ is_success(responses[1].status)))

\* update-item i1 TRUE sent done = false and exited 0
C6_Witness ==
    /\ cmd.name = "update-item" /\ cmd.a2 = "TRUE" /\ Exited
    /\ requests[1].body[1].data.done = FALSE
    /\ exitStatus = 0

----------------------------------------------------------------------------
\* C7: when the fetched Project has no lists field, get_full_project returns
\* None after that one request and get-project ends non-zero with an empty
\* stdout; when the field is present and empty, get_full_project returns a
\* FullProject with no lists, still after exactly one request.
C7_AbsentVersusEmptyLists ==
    (cmd.name = "get-project" /\ Exited /\ Len(calls) >= 1 /\ IsSome(calls[1].ret)) =>
        /\ calls[1].ret[1].lists = None =>
            /\ full = None
            /\ Len(requests) = 1
            /\ exitStatus # 0
            /\ stdout = <<>>
        /\ calls[1].ret[1].lists = Some(<<>>) =>
            /\ IsSome(full)
            /\ full[1].lists = <<>>
            /\ Len(requests) = 1
            /\ exitStatus = 0

\* a Project without the lists field was fetched and the command has ended
C7_Witness ==
    /\ cmd.name = "get-project" /\ Exited
    /\ Len(calls) = 1
    /\ IsSome(calls[1].ret)
    /\ calls[1].ret[1].lists = None
    /\ "lists" \notin DOMAIN FetchedWire

----------------------------------------------------------------------------
\* C9: during get-project at most one request is outstanding, a request is
\* issued only after every earlier one has been answered (so the project
\* is answered before any list is requested), and the list requests reach
\* the server in the order of the Project's id sequence.
C9_StrictlySerial ==
    cmd.name = "get-project" =>
        /\ inflight <= 1
        /\ Len(requests) <= Len(responses) + 1
        /\ Len(requests) >= 2 =>
            /\ get_project(responses[1]) # None
            /\ "lists" \in DOMAIN FetchedWire
            /\ Len(requests) <= 1 + Len(FetchedWire.lists)
            /\ \A j \in 2..Len(requests) :
                requests[j].url = GetUrl("/api/project/list", FetchedWire.lists[j - 1].id)

\* the second of two different list ids is being fetched
C9_Witness ==
    /\ cmd.name = "get-project"
    /\ Len(requests) = 3
    /\ inflight = 1
    /\ Len(responses) = 2
    /\ requests[2].url # requests[3].url

----------------------------------------------------------------------------
====
